---- MODULE Spec2Model ----
(***************************************************************************)
(* The four tutorial notebooks of astropy-coordinates as state machines.   *)
(*                                                                         *)
(* A notebook is a sequence of code cells; a cell is a sequence of Python  *)
(* statements.  The kernel state is the namespace `env` (name -> value)    *)
(* and the working directory `files`.  Running a cell executes its         *)
(* statements in order until one raises; what was bound before the raise   *)
(* stays bound.  The library calls the cells make (SkyCoord, transform_to, *)
(* represent_as, QTable.read, the archive queries ...) are modelled by     *)
(* what the notebooks' own cells, comments and narrative say they do.      *)
(*                                                                         *)
(* Spec runs the four notebooks cell by cell on values that record shape,  *)
(* frame and origin.  CleanSpec and MatchSpec run the cells of notebook 4  *)
(* again on the numbers themselves (`data`): the masked-column clean-up    *)
(* and the epoch propagation and cross-match.  GridSpec runs the AltAz     *)
(* cells of notebook 2 on arrays element by element, and TwinSpec runs a   *)
(* notebook twice side by side, the second run kept in `data`.             *)
(***************************************************************************)
EXTENDS Integers, Sequences, FiniteSets, TLC

VARIABLES nb, mode, online, pc, env, files, outputs, halted, data

vars == <<nb, mode, online, pc, env, files, outputs, halted, data>>

\* the kernel of a notebook session
session == <<nb, mode, online, pc, env, files, outputs, halted>>

(***************************************************************************)
(* Bounds of the model.                                                    *)
(***************************************************************************)
\* how many different answers an archive may give to the same query
NetVersions == 2

\* rows of a data table whose length the notebooks do not state
TableRows == 2

\* distinct observation dates an archive's answer may hold
MaxDates == 2

(***************************************************************************)
(* Numbers the notebooks state.                                            *)
(***************************************************************************)
\* "We have 474 open clusters"
NClusters == 474

\* the number of points of np.linspace(0, 14, 256)
NTimes == 256

\* "all of the sources in our 2MASS table have the same epoch"
BundledDates == 1

(***************************************************************************)
(* Values of the namespace.                                                *)
(***************************************************************************)
Unbound == [kind |-> "unbound"]

Module == [kind |-> "module"]

\* a provenance token: where a piece of data came from
FromFile(f) == [from |-> "file", name |-> f, ver |-> 0]

FromNet(q, v) == [from |-> "net", name |-> q, ver |-> v]

Prov(v) == IF "prov" \in DOMAIN v THEN v.prov ELSE {}

\* any Python object the claims do not look into; it remembers its inputs
Obj(p) == [kind |-> "object", prov |-> p]

\* a table of `n` rows whose Date column (if any) holds `dates` distinct values
TableVal(n, dates, p) ==
    [kind |-> "table", shape |-> <<n>>, dates |-> dates, prov |-> p]

\* an array (Quantity, Time, ndarray) of the given shape
ArrayVal(shape, p) == [kind |-> "array", shape |-> shape, prov |-> p]

FileName(f, p) == [kind |-> "filename", file |-> f, prov |-> p]

\* a SkyCoord: frame, representation_type, the optional data it carries
\* (a subset of {"dist", "pm", "rv", "obstime"}) and its array shape
Sky(frame, rep, has, shape, p) ==
    [kind |-> "SkyCoord", frame |-> frame, rep |-> rep, has |-> has,
     shape |-> shape, prov |-> p]

\* a frame instance such as AltAz(location=..., obstime=time_grid)
FrameVal(frame, shape, p) ==
    [kind |-> "frame", frame |-> frame, shape |-> shape, prov |-> p]

\* coordinate data in one representation, as represent_as returns it
RepData(rep, has, shape, p) ==
    [kind |-> "representation", rep |-> rep, has |-> has, shape |-> shape,
     prov |-> p]

Err(e) == [kind |-> "error", ename |-> e]

IsErr(v) == v.kind = "error"

(***************************************************************************)
(* The coordinate library as the notebooks use and describe it.            *)
(***************************************************************************)
\* a lookup that passes a name string through unresolved
RepresentationClass_Literal(r) == r

\* represent_as and representation_type take a name string or a class
RepresentationClass(r) ==
    CASE r = "cartesian" -> "CartesianRepresentation"
      [] r = "cylindrical" -> "CylindricalRepresentation"
      [] r = "spherical" -> "SphericalRepresentation"
      [] OTHER -> r

\* the representation a frame uses unless told otherwise
DefaultRepresentation(frame) ==
    IF frame = "galactocentric" THEN "CartesianRepresentation"
    ELSE "SphericalRepresentation"

\* frames that are a fixed rotation away from ICRS, with no change of origin
RotationFrames == {"icrs", "fk5", "galactic"}

\* frames whose origin (and velocity zero point) is offset from ICRS
OffsetFrames == {"galactocentric"}

Max(a, b) == IF a >= b THEN a ELSE b

Min(a, b) == IF a <= b THEN a ELSE b

\* numpy broadcasting of two shapes; <<-1>> when they do not broadcast
Broadcast(s, t) ==
    LET n == Max(Len(s), Len(t))
        Pad(x) == [i \in 1..n |-> IF i <= n - Len(x) THEN 1
                                  ELSE x[i - (n - Len(x))]]
        a == Pad(s)
        b == Pad(t)
    IN  IF \A i \in 1..n : a[i] = b[i] \/ a[i] = 1 \/ b[i] = 1
        THEN [i \in 1..n |-> IF a[i] = 1 THEN b[i] ELSE a[i]]
        ELSE <<-1>>

\* x[0], x[:k], x[:, np.newaxis], x[np.newaxis] on a shape
IndexShape(shape, how, k) ==
    CASE how = "[0]" -> Tail(shape)
      [] how = "[:k]" -> <<IF shape[1] < k THEN shape[1] ELSE k>> \o Tail(shape)
      [] how = "[:, newaxis]" -> <<shape[1], 1>> \o Tail(shape)
      [] how = "[newaxis]" -> <<1>> \o shape
      [] OTHER -> shape

Index(v, how, k) ==
    IF how \in {"[0]", "[:k]", "[:, newaxis]"} /\ Len(v.shape) = 0
    THEN Err("IndexError")
    ELSE [v EXCEPT !.shape = IndexShape(v.shape, how, k)]

\* a transform_to that moves the origin without asking for a distance
TransformTo_NoOriginCheck(c, f) ==
    Sky(f.frame, DefaultRepresentation(f.frame), c.has,
        Broadcast(c.shape, f.shape), c.prov \cup f.prov)

\* a transform_to that hands back the coordinate in the frame it came in
TransformTo_KeepsFrame(c, f) ==
    [c EXCEPT !.shape = Broadcast(c.shape, f.shape)]

\* a transform_to that refuses any velocity data in an offset frame
TransformTo_RejectsVelocity(c, f) ==
    IF f.frame \in OffsetFrames
       /\ ("dist" \notin c.has \/ c.has \cap {"pm", "rv"} # {})
    THEN Err("ConvertError")
    ELSE Sky(f.frame, DefaultRepresentation(f.frame), c.has,
             Broadcast(c.shape, f.shape), c.prov \cup f.prov)

\* SkyCoord.transform_to(frame instance)
TransformTo(c, f) ==
    LET shape == Broadcast(c.shape, f.shape)
        velocity == c.has \cap {"pm", "rv"}
    IN  IF f.frame \in OffsetFrames /\ "dist" \notin c.has
        THEN Err("ConvertError")
        ELSE IF f.frame \in OffsetFrames /\ velocity # {}
                /\ velocity # {"pm", "rv"}
        THEN Err("ConvertError")
        ELSE IF shape = <<-1>>
        THEN Err("ValueError")
        ELSE Sky(f.frame, DefaultRepresentation(f.frame), c.has, shape,
                 c.prov \cup f.prov)

\* SkyCoord.represent_as(name or class): new data, the SkyCoord is not touched
RepresentAs(c, r) ==
    RepData(RepresentationClass(r), c.has \cap {"dist"}, c.shape, c.prov)

\* c.representation_type = class
SetRepresentationType(c, r) == [c EXCEPT !.rep = RepresentationClass(r)]

\* component names that follow the frame alone, whatever the representation
ComponentNames_FrameOnly(c) ==
    CASE c.frame \in {"icrs", "fk5"} -> {"ra", "dec", "distance"}
      [] c.frame = "galactic" -> {"l", "b", "distance"}
      [] c.frame = "altaz" -> {"az", "alt", "distance"}
      [] OTHER -> {"lon", "lat", "distance"}

\* the component names a SkyCoord answers to
ComponentNames(c) ==
    LET pos == CASE c.rep = "CartesianRepresentation" -> {"x", "y", "z"}
                 [] c.rep = "CylindricalRepresentation" -> {"rho", "phi", "z"}
                 [] c.frame \in {"icrs", "fk5"} -> {"ra", "dec", "distance"}
                 [] c.frame = "galactic" -> {"l", "b", "distance"}
                 [] c.frame = "altaz" -> {"az", "alt", "distance"}
                 [] OTHER -> {"lon", "lat", "distance"}
        pm ==  CASE "pm" \notin c.has \/ c.rep # "SphericalRepresentation" -> {}
                 [] c.frame \in {"icrs", "fk5"} -> {"pm_ra_cosdec", "pm_dec"}
                 [] c.frame = "galactic" -> {"pm_l_cosb", "pm_b"}
                 [] c.frame = "altaz" -> {"pm_az_cosalt", "pm_alt"}
                 [] OTHER -> {"pm_lon_coslat", "pm_lat"}
        rv == IF "rv" \in c.has /\ c.rep = "SphericalRepresentation"
              THEN {"radial_velocity"} ELSE {}
    IN  pos \cup pm \cup rv

\* attributes every SkyCoord has, whatever its frame and representation
CommonAttributes == {"obstime", "representation_type", "spherical", "frame"}

\* a SkyCoord without the frame-name shorthand
FrameAttributes_None == {}

\* the frame-name shorthand: c.galactic is c.transform_to(Galactic())
FrameAttributes == {"icrs", "fk5", "galactic"}

GetAttr(c, a) ==
    CASE c.kind # "SkyCoord" -> Obj(Prov(c))
      [] a \in ComponentNames(c) -> ArrayVal(c.shape, c.prov)
      [] a \in FrameAttributes -> TransformTo(c, FrameVal(a, <<>>, {}))
      [] a \in CommonAttributes -> Obj(c.prov)
      [] OTHER -> Err("AttributeError")

\* SkyCoord.apply_space_motion(new_obstime): a new SkyCoord at the new epoch
ApplySpaceMotion(c, t) ==
    IF "pm" \notin c.has \/ "obstime" \notin c.has
    THEN Err("ValueError")
    ELSE IF Broadcast(c.shape, t.shape) = <<-1>>
    THEN Err("ValueError")
    ELSE [c EXCEPT !.shape = Broadcast(c.shape, t.shape),
                   !.prov = c.prov \cup t.prov]

(***************************************************************************)
(* Statements and cells.                                                   *)
(***************************************************************************)
\* a statement: the names it reads, the names it binds, and what it calls
Stmt == [op |-> "opaque", reads |-> {}, binds |-> {}, recv |-> "",
         arg |-> "", has |-> {}, idx |-> "", fidx |-> "", n |-> 0,
         net |-> FALSE]

\* import ... / from ... import ...
Import(names) == [Stmt EXCEPT !.op = "import", !.binds = names]

\* an expression statement whose value the model does not look into
Expr(reads) == [Stmt EXCEPT !.reads = reads]

\* names = <expression the model does not look into>
Assign(binds, reads) == [Stmt EXCEPT !.reads = reads, !.binds = binds]

\* a bare name as the last line of a cell: the cell displays its value
Show(name) == [Stmt EXCEPT !.op = "name", !.reads = {name}, !.recv = name]

\* SkyCoord(...): `has` is the optional data passed in, `tbl` the table the
\* components come from ("" for literals), `n` the length of literal arrays
NewSkyCoord(binds, reads, frame, has, tbl, n) ==
    [Stmt EXCEPT !.op = "SkyCoord", !.reads = reads, !.binds = binds,
                 !.arg = frame, !.has = has, !.recv = tbl, !.n = n]

\* recv.op(arg)
Method(op, binds, reads, recv, arg) ==
    [Stmt EXCEPT !.op = op, !.reads = reads \cup {recv}, !.binds = binds,
                 !.recv = recv, !.arg = arg]

\* a call that needs the network
NetCall(op, binds, reads, arg) ==
    [Stmt EXCEPT !.op = op, !.reads = reads, !.binds = binds, !.arg = arg,
                 !.net = TRUE]

\* a code cell: its first line in the notebook file, whether it is tagged
\* raises-exception, whether the text says it may be skipped offline, and
\* whether the text offers it as the alternative to the cell before it
Cell(line, stmts) ==
    [line |-> line, tag |-> FALSE, skip |-> FALSE, alt |-> FALSE,
     stmts |-> stmts]

\* a cell whose raises-exception tag is lost
Tagged_Dropped(c) == c

Tagged(c) == [c EXCEPT !.tag = TRUE]

Skippable(c) == [c EXCEPT !.skip = TRUE]

Alternative(c) == [c EXCEPT !.alt = TRUE]

(***************************************************************************)
(* Notebook 3: Working with Velocity Data.                                 *)
(***************************************************************************)
NB3 == <<
    Cell(39, <<Import({"warnings", "plt", "np", "u", "SkyCoord", "Distance",
                       "Galactic", "coord", "fits", "QTable", "Time",
                       "download_file", "WCS", "Gaia"})>>),
    Cell(77, <<NewSkyCoord({}, {"SkyCoord", "u"}, "icrs", {"pm"}, "", 0)>>),
    Cell(100, <<NewSkyCoord({}, {"SkyCoord", "np", "u"}, "icrs", {"pm"},
                            "", 5)>>),
    Cell(123, <<NewSkyCoord({"velocity_coord"}, {"SkyCoord", "u"}, "icrs",
                            {"pm", "rv"}, "", 0),
                Show("velocity_coord")>>),
    Cell(146, <<Method("getattr", {}, {}, "velocity_coord",
                       "pm_ra_cosdec")>>),
    Cell(155, <<Method("getattr", {}, {}, "velocity_coord",
                       "radial_velocity")>>),
    Cell(171, <<Method("transform_to", {"velocity_coord_gal"}, {"Galactic"},
                       "velocity_coord", "galactic"),
                Show("velocity_coord_gal")>>),
    Cell(188, <<Method("getattr", {}, {}, "velocity_coord_gal",
                       "pm_l_cosb")>>),
    Cell(197, <<Method("getattr", {}, {}, "velocity_coord_gal", "pm_b")>>),
    Tagged(Cell(213,
              <<NewSkyCoord({"test_coord_1"}, {"SkyCoord", "u"}, "icrs",
                            {"pm"}, "", 0),
                Method("transform_to", {}, {"coord"}, "test_coord_1",
                       "galactocentric")>>)),
    Cell(242, <<NewSkyCoord({"test_coord_2"}, {"SkyCoord", "u"}, "icrs",
                            {"dist", "pm", "rv"}, "", 0),
                Method("transform_to", {}, {"coord"}, "test_coord_2",
                       "galactocentric")>>),
    Skippable(Cell(273,
              <<NetCall("query", {"gaia_tbl"}, {"Gaia", "SkyCoord", "u"},
                        "HD 219829")>>)),
    Cell(283, <<Method("read", {"gaia_tbl"}, {"warnings"}, "QTable",
                       "HD_219829_query_results.ecsv")>>),
    Cell(303, <<Assign({"hd219829_row"}, {"gaia_tbl"}),
                Expr({"hd219829_row"})>>),
    Cell(322, <<NewSkyCoord({"hd219829_coord"},
                            {"SkyCoord", "hd219829_row", "Distance", "Time"},
                            "icrs", {"dist", "pm", "obstime"}, "", 0),
                Show("hd219829_coord")>>),
    Skippable(Cell(349,
              <<NetCall("download", {"dss_cutout_filename"},
                        {"download_file", "hd219829_coord"}, "dss_search")>>)),
    Cell(363, <<[Stmt EXCEPT !.op = "filename",
                             !.binds = {"dss_cutout_filename"},
                             !.arg = "dss_hd219829.fits"]>>),
    Cell(381, <<Method("open", {"hdu"}, {"fits"}, "dss_cutout_filename", ""),
                Assign({"wcs"}, {"WCS", "hdu"}),
                Assign({"fig", "ax"}, {"plt", "wcs"}),
                Expr({"ax", "hdu"}),
                Method("getattr", {}, {"ax"}, "hd219829_coord", "ra"),
                Method("getattr", {}, {"ax"}, "hd219829_coord", "dec"),
                Expr({"ax", "hd219829_coord"})>>),
    Cell(416, <<Method("getattr", {}, {}, "hd219829_coord", "obstime")>>),
    Cell(432, <<Method("apply_space_motion", {"hd219829_coord_1950"},
                       {"warnings", "Time"}, "hd219829_coord", "")>>),
    Cell(452, <<Assign({"fig", "ax"}, {"plt", "wcs"}),
                Expr({"ax", "hdu"}),
                Method("getattr", {}, {"ax"}, "hd219829_coord", "ra"),
                Method("getattr", {}, {"ax"}, "hd219829_coord_1950", "ra"),
                Method("getattr", {}, {"ax"}, "hd219829_coord_1950", "dec"),
                Expr({"ax", "hd219829_coord", "hd219829_coord_1950"})>>),
    Cell(514, <<>>)
>>

(***************************************************************************)
(* Notebook 4: Cross-matching Catalogs.                                    *)
(***************************************************************************)
NB4 == <<
    Cell(39, <<Import({"warnings", "plt", "np", "u", "SkyCoord", "Distance",
                       "QTable", "Time", "Vizier"})>>),
    Cell(71, <<Method("read", {"ngc188_table"}, {}, "QTable",
                      "gaia_results.fits"),
               Method("getitem", {"ngc188_table"}, {"u"}, "ngc188_table",
                      "[mask]"),
               NewSkyCoord({"ngc188_center_3d"}, {"SkyCoord", "u"}, "icrs",
                           {"dist", "pm"}, "", 0),
               Method("column", {"parallax"}, {"np"}, "ngc188_table",
                      "parallax"),
               Assign({"velocity_data"}, {"ngc188_table"}),
               Assign({"k", "v", "velocity_data"}, {"velocity_data", "np"}),
               NewSkyCoord({"ngc188_coords_3d"},
                           {"SkyCoord", "ngc188_table", "Distance",
                            "parallax", "Time", "velocity_data"},
                           "icrs", {"dist", "pm", "rv", "obstime"},
                           "ngc188_table", 0),
               Method("column", {"sep3d"}, {"ngc188_center_3d"},
                      "ngc188_coords_3d", "separation_3d"),
               Method("column", {"pm_diff"}, {"np", "ngc188_center_3d"},
                      "ngc188_table", "pmra"),
               Assign({"ngc188_members_mask"}, {"sep3d", "pm_diff", "u"}),
               Method("getitem", {"ngc188_members"}, {"ngc188_members_mask"},
                      "ngc188_table", "[mask]"),
               Method("getitem", {"ngc188_members_coords"},
                      {"ngc188_members_mask"}, "ngc188_coords_3d", "[mask]"),
               Expr({"ngc188_members"})>>),
    Skippable(Cell(141,
              <<Assign({"v"}, {"Vizier"}),
                Expr({"v"}),
                NetCall("query", {"result"}, {"v", "ngc188_center_3d", "u"},
                        "II/246"),
                Method("name", {"tmass_table"}, {}, "result", "")>>)),
    Alternative(Cell(164,
              <<Method("read", {"tmass_table"}, {"warnings"}, "QTable",
                       "2MASS_results.ecsv")>>)),
    Cell(184, <<[Method("getitem", {}, {}, "tmass_table", "[:k]")
                    EXCEPT !.n = 3]>>),
    Cell(200, <<NewSkyCoord({"tmass_coords"}, {"SkyCoord", "tmass_table"},
                            "icrs", {}, "tmass_table", 0),
                Expr({"tmass_coords"})>>),
    Cell(217, <<Method("unique", {}, {"np"}, "tmass_table", "Date")>>),
    Cell(233, <<Method("unique", {"tmass_epoch"}, {"np", "Time"},
                       "tmass_table", "Date")>>),
    Cell(249, <<Method("apply_space_motion", {"ngc188_members_coords_1999"},
                       {"tmass_epoch"}, "ngc188_members_coords",
                       "tmass_epoch")>>),
    Cell(270, <<Method("match_to_catalog_sky",
                       {"idx_gaia", "sep2d_gaia", "_"}, {"tmass_coords"},
                       "ngc188_members_coords_1999", "tmass_coords")>>),
    Cell(286, <<Expr({"plt", "sep2d_gaia", "np"})>>),
    Cell(306, <<Expr({"sep2d_gaia", "u", "ngc188_members"})>>),
    Cell(322, <<Method("take", {"Jmag"}, {"tmass_table"}, "idx_gaia", ""),
                Method("column", {"Gmag"}, {}, "ngc188_members",
                       "phot_g_mean_mag"),
                Method("column", {"Bmag"}, {}, "ngc188_members",
                       "phot_bp_mean_mag")>>),
    Cell(333, <<Assign({"fig", "axes"}, {"plt"}),
                Assign({"ax"}, {"axes"}),
                Method("broadcast", {}, {"ax", "Jmag"}, "Gmag", "Jmag"),
                Expr({"ax"}),
                Assign({"ax"}, {"axes"}),
                Method("broadcast", {}, {"ax", "Gmag"}, "Bmag", "Gmag"),
                Expr({"ax", "Jmag"}),
                Expr({"fig"})>>),
    Cell(367, <<>>)
>>

(***************************************************************************)
(* Notebook 1: Getting Started.                                            *)
(***************************************************************************)
NB1 == <<
    Cell(42, <<Import({"plt", "np", "u", "SkyCoord", "Distance", "QTable",
                       "Gaia"}),
               Expr({"Gaia"})>>),
    Cell(73, <<NewSkyCoord({"ngc188_center"}, {"SkyCoord", "u"}, "icrs", {},
                           "", 0),
               Show("ngc188_center")>>),
    Cell(90, <<NewSkyCoord({"ngc188_center"}, {"SkyCoord", "u"}, "icrs", {},
                           "", 0),
               Show("ngc188_center")>>),
    Cell(109, <<NewSkyCoord({}, {"SkyCoord"}, "icrs", {}, "", 0)>>),
    Cell(125, <<NewSkyCoord({}, {"SkyCoord", "u"}, "icrs", {}, "", 0)>>),
    Skippable(Cell(150,
              <<NetCall("from_name", {"ngc188_center"}, {"SkyCoord"},
                        "NGC 188"),
                Show("ngc188_center")>>)),
    Cell(167, <<Method("getattr", {}, {}, "ngc188_center", "ra"),
                Method("getattr", {}, {}, "ngc188_center", "dec")>>),
    Cell(183, <<Method("getattr", {}, {}, "ngc188_center", "ra")>>),
    Cell(192, <<Method("getattr", {}, {}, "ngc188_center", "dec")>>),
    Cell(201, <<Method("getattr", {}, {}, "ngc188_center", "ra"),
                Method("getattr", {}, {}, "ngc188_center", "dec")>>),
    Cell(217, <<Method("getattr", {}, {"u"}, "ngc188_center", "ra")>>),
    Cell(237, <<Method("getattr", {}, {}, "ngc188_center", "ra")>>),
    Cell(253, <<Method("getattr", {}, {"u"}, "ngc188_center", "ra")>>),
    Skippable(Cell(278,
              <<NetCall("query", {"job"}, {"Gaia", "ngc188_center", "u"},
                        "cone_search"),
                Method("name", {"ngc188_table"}, {}, "job", ""),
                Method("getitem", {"ngc188_table"}, {"u"}, "ngc188_table",
                       "[mask]")>>)),
    Cell(291, <<Assign({"cols"}, {}),
                Method("write", {}, {"cols"}, "ngc188_table",
                       "gaia_results.fits")>>),
    Cell(320, <<Method("read", {"ngc188_table"}, {}, "QTable",
                       "gaia_results.fits")>>),
    Cell(329, <<Expr({"ngc188_table"})>>),
    Cell(345, <<Method("column", {}, {}, "ngc188_table", "ra")>>),
    Cell(354, <<Method("column", {}, {}, "ngc188_table", "dec")>>),
    Cell(370, <<NewSkyCoord({"ngc188_gaia_coords"},
                            {"SkyCoord", "ngc188_table"}, "icrs", {},
                            "ngc188_table", 0),
                Show("ngc188_gaia_coords")>>),
    Cell(394, <<NetCall("from_name", {"ngc188_center"}, {"SkyCoord"},
                        "NGC 188")>>),
    Cell(412, <<Expr({"ngc188_center"})>>),
    Cell(430, <<Method("broadcast", {}, {"ngc188_center"},
                       "ngc188_gaia_coords", "ngc188_center")>>),
    Cell(448, <<NewSkyCoord({"ngc188_center_3d"}, {"SkyCoord", "u"}, "icrs",
                            {"dist"}, "", 0)>>),
    Cell(464, <<Method("column", {"parallax_snr"}, {}, "ngc188_table",
                       "parallax"),
                Method("getitem", {"ngc188_table_3d"}, {"parallax_snr"},
                       "ngc188_table", "[mask]"),
                Expr({"ngc188_table_3d"})>>),
    Cell(484, <<Expr({"Distance", "u"})>>),
    Cell(500, <<Method("column", {"gaia_dist"}, {"Distance", "np"},
                       "ngc188_table_3d", "parallax")>>),
    Cell(516, <<NewSkyCoord({"ngc188_coords_3d"},
                            {"SkyCoord", "ngc188_table_3d", "gaia_dist"},
                            "icrs", {"dist"}, "ngc188_table_3d", 0),
                Show("ngc188_coords_3d")>>),
    Cell(535, <<Assign({"fig", "ax"}, {"plt"}),
                Method("getattr", {}, {"ax"}, "ngc188_coords_3d", "ra"),
                Method("getattr", {}, {"ax"}, "ngc188_coords_3d", "dec"),
                Method("getattr", {}, {"ax"}, "ngc188_coords_3d",
                       "distance"),
                Assign({"cs"}, {"ax", "ngc188_coords_3d"}),
                Assign({"cb"}, {"fig", "cs"}),
                Expr({"cb", "u"}),
                Expr({"ax"})>>),
    Cell(567, <<Method("column", {"sep3d"}, {"ngc188_center_3d"},
                       "ngc188_coords_3d", "separation_3d"),
                Show("sep3d")>>),
    Cell(586, <<Assign({"ngc188_3d_mask"}, {"sep3d", "u"}),
                Expr({"ngc188_3d_mask"})>>)
>>

(***************************************************************************)
(* Notebook 2: Transforming Coordinate Systems and Representations.        *)
(***************************************************************************)
\* the globals the body of coordinates_aitoff_plot reads when it is called
AitoffGlobals == {"coordinates_aitoff_plot", "plt", "u", "coord", "mpl"}

NB2 == <<
    Cell(40, <<Import({"mpl", "plt", "np", "u", "SkyCoord", "Galactic",
                       "EarthLocation", "AltAz", "coord", "QTable",
                       "Time"})>>),
    Cell(73, <<NewSkyCoord({"c"}, {"SkyCoord", "u"}, "icrs", {}, "", 0),
               Method("getattr", {}, {}, "c", "ra"),
               Expr({"c"}),
               Method("getattr", {}, {}, "c", "dec")>>),
    Cell(96, <<Method("represent_as", {}, {}, "c", "cartesian")>>),
    Cell(112, <<Method("represent_as", {}, {"coord"}, "c",
                       "CartesianRepresentation")>>),
    Cell(128, <<Expr({"coord"})>>),
    Cell(146, <<NewSkyCoord({"c2"}, {"SkyCoord", "u"}, "icrs", {"dist"},
                            "", 0)>>),
    Cell(155, <<Method("represent_as", {}, {}, "c2", "cartesian")>>),
    Cell(171, <<Method("represent_as", {}, {}, "c2", "cylindrical")>>),
    Cell(187, <<NewSkyCoord({"c3"}, {"SkyCoord", "u"}, "icrs", {"dist"},
                            "", 0),
                Method("getattr", {}, {}, "c3", "representation_type"),
                Show("c3")>>),
    Cell(205, <<Method("set_representation_type", {"c3"}, {"coord"}, "c3",
                       "CylindricalRepresentation")>>),
    Cell(221, <<Show("c3")>>),
    Cell(237, <<Method("getattr", {}, {}, "c3", "rho"),
                Method("getattr", {}, {}, "c3", "phi"),
                Method("getattr", {}, {}, "c3", "z")>>),
    Cell(257, <<Method("read", {"tbl"}, {}, "QTable",
                       "Cantat-Gaudin-open-clusters.ecsv")>>),
    Cell(273, <<NewSkyCoord({"open_cluster_c"}, {"SkyCoord", "tbl"}, "icrs",
                            {"dist"}, "tbl", 0),
                Expr({"open_cluster_c"})>>),
    Cell(292, <<[Method("getitem", {}, {}, "open_cluster_c", "[:k]")
                    EXCEPT !.n = 4]>>),
    Cell(308, <<[Stmt EXCEPT !.op = "def",
                             !.binds = {"coordinates_aitoff_plot"}]>>),
    Cell(344, <<Method("getattr", {"fig", "ax"}, AitoffGlobals,
                       "open_cluster_c", "spherical"),
                Expr({"ax"}),
                Expr({"ax"})>>),
    Cell(364, <<Method("transform_to", {"open_cluster_gal"}, {"Galactic"},
                       "open_cluster_c", "galactic")>>),
    Cell(380, <<Method("getattr", {"open_cluster_gal"}, {}, "open_cluster_c",
                       "galactic")>>),
    Cell(396, <<[Method("getitem", {}, {}, "open_cluster_gal", "[:k]")
                    EXCEPT !.n = 4]>>),
    Cell(412, <<Method("getattr", {}, {}, "open_cluster_gal", "l")>>),
    Cell(421, <<Method("getattr", {}, {}, "open_cluster_gal", "b")>>),
    Cell(444, <<Method("getattr", {"fig", "ax"}, AitoffGlobals,
                       "open_cluster_gal", "spherical"),
                Expr({"ax"}),
                Expr({"ax"})>>),
    Cell(475, <<Assign({"demo_loc"}, {"EarthLocation", "u"})>>),
    Tagged(Cell(491,
              <<NetCall("of_address", {"demo_loc"}, {"EarthLocation"},
                        "162 Fifth Ave")>>)),
    Cell(511, <<Assign({"observing_location"}, {"EarthLocation"})>>),
    Cell(529, <<Assign({"observing_date"}, {"Time"}),
                [Stmt EXCEPT !.op = "array", !.binds = {"time_grid"},
                             !.reads = {"observing_date", "np", "u"},
                             !.n = NTimes]>>),
    Cell(552, <<Method("frame", {"altaz"}, {"AltAz", "observing_location"},
                       "time_grid", "altaz")>>),
    Cell(568, <<[Method("transform_to", {"oc_altaz"}, {"altaz"},
                        "open_cluster_c", "altaz") EXCEPT !.idx = "[0]"],
                Show("oc_altaz")>>),
    Cell(585, <<Expr({"plt"}),
                Method("getattr", {}, {"plt", "time_grid"}, "oc_altaz",
                       "alt"),
                Expr({"plt"})>>),
    Cell(607, <<Expr({"open_cluster_c", "altaz"})>>),
    Cell(623, <<[Method("transform_to", {"open_cluster_altaz"},
                        {"altaz", "np"}, "open_cluster_c", "altaz")
                    EXCEPT !.idx = "[:, newaxis]", !.fidx = "[newaxis]"]>>),
    Cell(639, <<Expr({"plt"}),
                [Method("getattr", {}, {"plt", "time_grid"},
                        "open_cluster_altaz", "alt")
                    EXCEPT !.idx = "[:k]", !.n = 10],
                Expr({"plt"})>>),
    Cell(670, <<NewSkyCoord({"icrs_c"}, {"coord", "u"}, "icrs", {}, "", 0),
                Method("transform_to", {}, {"coord"}, "icrs_c", "fk5")>>),
    Tagged(Cell(687,
              <<Method("transform_to", {}, {"coord"}, "icrs_c",
                       "galactocentric")>>)),
    Cell(723, <<>>),
    Cell(737, <<>>),
    Cell(751, <<>>)
>>

Notebooks == <<NB1, NB2, NB3, NB4>>

(***************************************************************************)
(* The kernel: running statements and cells.                               *)
(***************************************************************************)
RECURSIVE SeqUnion(_)
SeqUnion(q) == IF q = <<>> THEN {} ELSE Head(q) \cup SeqUnion(Tail(q))

StmtNames(st) == st.reads \cup st.binds

CellNames(c) == SeqUnion([i \in 1..Len(c.stmts) |-> StmtNames(c.stmts[i])])

\* every name some cell of some notebook reads or binds
Names ==
    UNION {SeqUnion([i \in 1..Len(Notebooks[n]) |-> CellNames(Notebooks[n][i])])
           : n \in 1..Len(Notebooks)}

\* the data files the notebooks read from the working directory
BundledFiles == {"gaia_results.fits", "HD_219829_query_results.ecsv",
                 "dss_hd219829.fits", "2MASS_results.ecsv",
                 "Cantat-Gaudin-open-clusters.ecsv"}

FileRows(f) ==
    IF f = "Cantat-Gaudin-open-clusters.ecsv" THEN NClusters ELSE TableRows

\* frames the cells construct in place: Galactic(), coord.FK5(), ...
FrameClasses == {"icrs", "fk5", "galactic", "galactocentric"}

Bound(e) == {x \in Names : e[x].kind # "unbound"}

\* a QTable.read that does not find the file next to the notebook
ReadTable_NoFile(f, fs) == Err("FileNotFoundError")

\* QTable.read(f): the table in file f of the working directory
ReadTable(f, fs) ==
    IF f \in DOMAIN fs
    THEN TableVal(FileRows(f), BundledDates, fs[f])
    ELSE Err("FileNotFoundError")

\* an archive's answer to query q: which answer (v) and how many distinct
\* dates its rows hold (d) is the archive's choice
QueryArchive(q, v, d) ==
    TableVal(TableRows, Min(d, TableRows), {FromNet(q, v)})

\* the value of one statement's right-hand side.  v, m and d are what the
\* outside world decides: the archive's answer, how many rows a boolean
\* mask keeps, how many distinct dates the archive's table holds
Eval(st, e, fs, v, m, d) ==
    LET r == e[st.recv]
        ri == IF st.idx = "" THEN r ELSE Index(r, st.idx, st.n)
        P == UNION {Prov(e[x]) : x \in st.reads}
    IN  CASE st.op = "import" -> Module
          [] st.op = "def" -> Obj({})
          [] st.op = "name" -> r
          [] st.op = "SkyCoord" ->
                Sky(st.arg, "SphericalRepresentation", st.has,
                    IF st.recv # "" THEN r.shape
                    ELSE IF st.n > 0 THEN <<st.n>> ELSE <<>>, P)
          [] st.op = "from_name" ->
                Sky("icrs", "SphericalRepresentation", {}, <<>>,
                    {FromNet(st.arg, v)})
          [] st.op = "query" -> QueryArchive(st.arg, v, d)
          [] st.op = "download" -> FileName("cache", {FromNet(st.arg, v)})
          [] st.op = "of_address" -> Obj({FromNet(st.arg, v)})
          [] st.op = "read" -> ReadTable(st.arg, fs)
          [] st.op = "write" -> Obj({})
          [] st.op = "filename" -> FileName(st.arg, {})
          [] st.op = "open" ->
                IF r.file = "cache" THEN Obj(r.prov)
                ELSE IF r.file \in DOMAIN fs THEN Obj(fs[r.file])
                ELSE Err("FileNotFoundError")
          [] st.op = "transform_to" ->
                LET f == IF st.arg \in FrameClasses
                         THEN FrameVal(st.arg, <<>>, {})
                         ELSE IF st.fidx = "" THEN e[st.arg]
                         ELSE Index(e[st.arg], st.fidx, 0)
                IN  IF IsErr(ri) THEN ri ELSE TransformTo(ri, f)
          [] st.op = "getitem" ->
                IF st.arg = "[mask]"
                THEN [r EXCEPT !.shape = <<Min(m, r.shape[1])>>]
                ELSE Index(r, st.arg, st.n)
          [] st.op = "column" -> ArrayVal(r.shape, P)
          [] st.op = "take" -> ArrayVal(r.shape, P)
          [] st.op = "unique" -> ArrayVal(<<r.dates>>, r.prov)
          [] st.op = "apply_space_motion" ->
                ApplySpaceMotion(r, IF st.arg = "" THEN ArrayVal(<<>>, {})
                                    ELSE e[st.arg])
          [] st.op = "match_to_catalog_sky" ->
                IF e[st.arg].shape = <<0>> THEN Err("ValueError")
                ELSE ArrayVal(r.shape, P)
          [] st.op = "broadcast" ->
                IF Broadcast(r.shape, e[st.arg].shape) = <<-1>>
                THEN Err("ValueError")
                ELSE ArrayVal(Broadcast(r.shape, e[st.arg].shape), P)
          [] st.op = "represent_as" -> RepresentAs(r, st.arg)
          [] st.op = "set_representation_type" ->
                SetRepresentationType(r, st.arg)
          [] st.op = "getattr" -> IF IsErr(ri) THEN ri ELSE GetAttr(ri, st.arg)
          [] st.op = "frame" -> FrameVal(st.arg, r.shape, P)
          [] st.op = "array" -> ArrayVal(<<st.n>>, P)
          [] OTHER -> Obj(P)

\* what a cell displays when its last line binds nothing
NoOut == [kind |-> "none"]

\* one statement on the kernel state s = [env, files, err, out]: a name that
\* is not bound raises NameError before anything is called; a call that
\* needs the network raises when there is none; otherwise the library
\* decides.  A statement that raises binds nothing.
ExecStmt(st, s, net, v, m, d) ==
    IF ~(st.reads \subseteq Bound(s.env))
    THEN [s EXCEPT !.err = "NameError", !.out = NoOut]
    ELSE IF st.net /\ ~net
    THEN [s EXCEPT !.err = "ConnectionError", !.out = NoOut]
    ELSE LET val == Eval(st, s.env, s.files, v, m, d)
         IN  IF IsErr(val)
             THEN [s EXCEPT !.err = val.ename, !.out = NoOut]
             ELSE [env |-> [x \in Names |->
                               IF x \in st.binds THEN val ELSE s.env[x]],
                   files |-> IF st.op = "write"
                             THEN [f \in DOMAIN s.files \cup {st.arg} |->
                                      IF f = st.arg THEN Prov(s.env[st.recv])
                                      ELSE s.files[f]]
                             ELSE s.files,
                   err |-> "none",
                   out |-> IF st.binds = {} /\ st.op # "write"
                           THEN val ELSE NoOut]

\* the statements of a cell in order, stopping at the first that raises
\* (t is the kernel state after statement i, computed once)
RECURSIVE ExecFrom(_, _, _, _, _, _, _)
ExecFrom(stmts, i, s, net, v, m, d) ==
    IF i > Len(stmts) \/ s.err # "none" THEN s
    ELSE CHOOSE r \in {ExecFrom(stmts, i + 1, t, net, v, m, d) :
                        t \in {ExecStmt(stmts[i], s, net, v, m, d)}} : TRUE

ExecCell(cell, e, fs, net, v, m, d) ==
    ExecFrom(cell.stmts, 1,
             [env |-> e, files |-> fs, err |-> "none", out |-> NoOut],
             net, v, m, d)

\* a cell's record of its last execution
CellOut(status, ename, value) ==
    [status |-> status, ename |-> ename, value |-> value]

NotRun == CellOut("notrun", "none", NoOut)

NCells == Len(Notebooks[nb])

\* what the outside world decides for a cell: which answer a network call
\* gets, how many rows a boolean mask keeps, how many dates an answer holds
NetChoices(c) ==
    IF \E i \in 1..Len(c.stmts) : c.stmts[i].net
    THEN 1..NetVersions ELSE {1}

MaskChoices(c) ==
    IF \E i \in 1..Len(c.stmts) :
          c.stmts[i].op = "getitem" /\ c.stmts[i].arg = "[mask]"
    THEN 0..TableRows ELSE {0}

DateChoices(c) ==
    IF \E i \in 1..Len(c.stmts) : c.stmts[i].op = "query"
    THEN 1..MaxDates ELSE {1}

\* Spec does not look at the numbers
NoData == [step |-> "none"]

Init ==
    /\ nb \in 1..Len(Notebooks)
    /\ mode \in {"interactive", "runall"}
    /\ online \in BOOLEAN
    /\ pc = 1
    /\ env = [x \in Names |-> Unbound]
    /\ files = [f \in BundledFiles |-> {FromFile(f)}]
    /\ outputs = [i \in 1..Len(Notebooks[nb]) |-> NotRun]
    /\ halted = FALSE
    /\ data = NoData

\* run the next cell.  In a run of the whole notebook an error stops the run
\* unless the cell is tagged raises-exception; a reader who runs the cells
\* one by one goes on to the next cell.
RunCell ==
    /\ ~halted
    /\ pc <= NCells
    /\ \E v \in NetChoices(Notebooks[nb][pc]),
          m \in MaskChoices(Notebooks[nb][pc]),
          d \in DateChoices(Notebooks[nb][pc]) :
          LET cell == Notebooks[nb][pc]
              r == ExecCell(cell, env, files, online, v, m, d)
          IN  /\ env' = r.env
              /\ files' = r.files
              /\ outputs' = [outputs EXCEPT ![pc] =
                                CellOut(IF r.err = "none" THEN "ok"
                                        ELSE "error", r.err, r.out)]
              /\ IF r.err # "none" /\ mode = "runall" /\ ~cell.tag
                 THEN halted' = TRUE /\ pc' = pc
                 ELSE halted' = FALSE /\ pc' = pc + 1
    /\ UNCHANGED <<nb, mode, online, data>>

\* the reader leaves out a cell the text says to skip without a connection,
\* or the "alternatively" cell when the cell before it has run
SkipCell ==
    /\ ~halted
    /\ pc <= NCells
    /\ mode = "interactive"
    /\ \/ Notebooks[nb][pc].skip
       \/ /\ Notebooks[nb][pc].alt
          /\ pc > 1
          /\ outputs[pc - 1].status = "ok"
    /\ outputs' = [outputs EXCEPT ![pc] = CellOut("skipped", "none", NoOut)]
    /\ pc' = pc + 1
    /\ UNCHANGED <<nb, mode, online, env, files, halted, data>>

Next == RunCell \/ SkipCell

Spec == Init /\ [][Next]_vars

\* a reader who keeps going: the next cell is eventually run
LiveSpec == Init /\ [][Next]_vars /\ WF_vars(RunCell)

(***************************************************************************)
(* Notebook 4 on the numbers, part 1: the masked columns are cleaned up    *)
(* and handed to SkyCoord.                                                 *)
(***************************************************************************)
\* rows of the Gaia table left after the parallax cut
NStars == 2

Rows == 1..NStars

\* an entry of a column: a number or NaN
Num(x) == [nan |-> FALSE, val |-> x]

NaN == [nan |-> TRUE, val |-> 0]

\* a table column: a plain Quantity, or a Masked one, which has a .mask
Column(masked, d, mk) == [masked |-> masked, data |-> d, mask |-> mk]

EmptyColumn == Column(FALSE, <<>>, <<>>)

NoMask == [i \in Rows |-> FALSE]

\* what pmra, pmdec and radial_velocity may hold: numbers and NaN in a plain
\* column, and masked entries besides in a masked one
VelocityColumns ==
    {Column(FALSE, d, NoMask) : d \in [Rows -> {Num(1), NaN}]}
    \cup {Column(TRUE, d, mk) :
             d \in [Rows -> {Num(1), NaN}], mk \in [Rows -> BOOLEAN]}

\* what parallax may hold after `parallax > 0.25 mas` has dropped the NaN
\* rows: numbers, and in a masked column masked entries
ParallaxColumns ==
    {Column(FALSE, [i \in Rows |-> Num(1)], NoMask)}
    \cup {Column(TRUE, [i \in Rows |-> IF mk[i] THEN NaN ELSE Num(1)], mk) :
             mk \in [Rows -> BOOLEAN]}

\* hasattr(v, "mask")
HasMask(v) == v.masked

\* a filled() that gives the column back as it is
Filled_Unchanged(v, x) == v

\* v.filled(x): a plain copy with x in place of the masked entries
Filled(v, x) ==
    Column(FALSE,
           [i \in DOMAIN v.data |-> IF v.mask[i] THEN x ELSE v.data[i]],
           [i \in DOMAIN v.data |-> FALSE])

\* np.isnan(v)
IsNan(v) == [i \in DOMAIN v.data |-> v.data[i].nan]

\* v[where] = x
SetItem(v, where, x) ==
    [v EXCEPT !.data = [i \in DOMAIN v.data |->
                           IF where[i] THEN x ELSE v.data[i]]]

\* parallax = ngc188_table["parallax"], filled with NaN if it has a mask
CleanParallax(p) == IF HasMask(p) THEN Filled(p, NaN) ELSE p

\* one turn of the loop over velocity_data
CleanVelocityColumn(v) ==
    LET f == IF HasMask(v) THEN Filled(v, Num(0)) ELSE v
    IN  SetItem(f, IsNan(f), Num(0))

\* the keys of velocity_data in the order the loop visits them
VelocityKeys == <<"pm_ra_cosdec", "pm_dec", "radial_velocity">>

\* SkyCoord(..., distance=Distance(parallax=parallax), **velocity_data):
\* the clean-up is there because the call does not take masked data
SkyCoordError(parallax, velocity_data) ==
    IF HasMask(parallax)
       \/ \E k \in DOMAIN velocity_data : HasMask(velocity_data[k])
    THEN "TypeError" ELSE "none"

\* the session has run the first cell of notebook 4
DataSession ==
    /\ nb = 4
    /\ mode = "interactive"
    /\ online \in BOOLEAN
    /\ pc = 2
    /\ env = [x \in Names |-> Unbound]
    /\ files = [f \in BundledFiles |-> {FromFile(f)}]
    /\ outputs = [i \in 1..Len(NB4) |-> NotRun]
    /\ halted = FALSE

CleanInit ==
    /\ DataSession
    /\ data = [step |-> "parallax", raw |-> EmptyColumn, rawkey |-> "",
               parallax |-> EmptyColumn, velocity_data |-> <<>>,
               err |-> "none"]

\* parallax = ...; if hasattr(parallax, "mask"): parallax = parallax.filled(nan)
ReadParallax ==
    /\ data.step = "parallax"
    /\ \E p \in ParallaxColumns :
          data' = [data EXCEPT !.step = "loop", !.raw = p,
                               !.rawkey = "parallax",
                               !.parallax = CleanParallax(p)]
    /\ UNCHANGED session

\* for k, v in velocity_data.items(): ...
CleanVelocity ==
    /\ data.step = "loop"
    /\ \E v \in VelocityColumns :
          LET k == Len(data.velocity_data) + 1
          IN  data' = [data EXCEPT
                          !.step = IF k = Len(VelocityKeys) THEN "skycoord"
                                   ELSE "loop",
                          !.raw = v,
                          !.rawkey = VelocityKeys[k],
                          !.velocity_data = Append(@, CleanVelocityColumn(v))]
    /\ UNCHANGED session

\* ngc188_coords_3d = SkyCoord(...)
MakeSkyCoord ==
    /\ data.step = "skycoord"
    /\ data' = [data EXCEPT
                   !.step = "done",
                   !.err = SkyCoordError(data.parallax, data.velocity_data)]
    /\ UNCHANGED session

CleanNext == ReadParallax \/ CleanVelocity \/ MakeSkyCoord

CleanSpec == CleanInit /\ [][CleanNext]_vars

(***************************************************************************)
(* Notebook 4 on the numbers, part 2: the 2MASS table, its epoch, the      *)
(* propagation of the members to that epoch and the cross-match.  The sky  *)
(* is one great circle: a position is an integer, a separation the         *)
(* absolute difference, a proper motion a step per year.                   *)
(***************************************************************************)
\* obstime=Time("J2015.5")
EpochGaia == 2015

\* "the 2MASS epoch of the data we downloaded (1999-10-19 ...)"
Epoch2MASS == 1999

\* members of the cluster (216 in the notebook)
NMembers == 2

\* 2MASS sources in the field
NCat == 3

ProperMotions == {-1, 0, 1}

\* where a 2MASS source may sit: where a member is now, or where a moving
\* member was at the 2MASS epoch
CatPositions == {0, Epoch2MASS - EpochGaia}

\* one coordinate of a SkyCoord
Star(ra, pm, t) == [ra |-> ra, pm |-> pm, obstime |-> t]

\* ngc188_members_coords: positions and proper motions at J2015.5
MemberCoords ==
    [1..NMembers -> {Star(0, pm, EpochGaia) : pm \in ProperMotions}]

\* a row of the 2MASS table
TmassRow(ra, date, jmag) == [RAJ2000 |-> ra, Date |-> date, Jmag |-> jmag]

\* 2MASS_results.ecsv: every row carries the same date
BundledTmass(sky) ==
    [j \in 1..NCat |-> TmassRow(sky[j], Epoch2MASS, j)]

\* the answers Vizier may give: the same sources, observed on n nights
VizierAnswer(sky, n) ==
    [j \in 1..NCat |-> TmassRow(sky[j], Epoch2MASS + ((j - 1) % n), j)]

Abs(x) == IF x < 0 THEN 0 - x ELSE x

\* angular separation of two coordinates
Separation(a, b) == Abs(a.ra - b.ra)

SetMin(S) == CHOOSE x \in S : \A y \in S : x <= y

RECURSIVE Sorted(_)
Sorted(S) == IF S = {} THEN <<>>
             ELSE <<SetMin(S)>> \o Sorted(S \ {SetMin(S)})

\* a unique() that sorts and keeps the duplicates
NpUnique_KeepsDuplicates(col) ==
    IF col = <<>> THEN <<>>
    ELSE [i \in 1..Len(col) |-> SetMin({col[j] : j \in 1..Len(col)})]

\* np.unique(column): the distinct values, sorted
NpUnique(col) == Sorted({col[i] : i \in 1..Len(col)})

\* where a star is at time t
MoveTo(s, t) == Star(s.ra + s.pm * (t - s.obstime), s.pm, t)

\* an apply_space_motion that only relabels the epoch
PropagateTo_NoMotion(c, epochs) ==
    [err |-> "none",
     val |-> [i \in 1..Len(c) |-> Star(c[i].ra, c[i].pm, epochs[1])]]

\* c.apply_space_motion(new_obstime=epochs): a new SkyCoord; the epochs
\* broadcast against the coordinates as numpy arrays do
PropagateTo(c, epochs) ==
    CASE Len(epochs) = 1 ->
            [err |-> "none",
             val |-> [i \in 1..Len(c) |-> MoveTo(c[i], epochs[1])]]
      [] Len(epochs) = Len(c) ->
            [err |-> "none",
             val |-> [i \in 1..Len(c) |-> MoveTo(c[i], epochs[i])]]
      [] Len(c) = 1 ->
            [err |-> "none",
             val |-> [i \in 1..Len(epochs) |-> MoveTo(c[1], epochs[i])]]
      [] OTHER -> [err |-> "ValueError", val |-> <<>>]

\* a match that names the first catalog source for everyone
MatchToCatalogSky_First(c, cat) ==
    {[idx |-> [i \in 1..Len(c) |-> 0],
      sep2d |-> [i \in 1..Len(c) |-> Separation(c[i], cat[1])]]}

\* c.match_to_catalog_sky(cat): for each coordinate of c the (0-based) index
\* of the nearest catalog source and the separation from it; which of two
\* equally near sources is named is up to the library
MatchToCatalogSky(c, cat) ==
    LET Near(i) == {j \in 0..(Len(cat) - 1) :
                       \A k \in 1..Len(cat) :
                           Separation(c[i], cat[j + 1])
                               <= Separation(c[i], cat[k])}
    IN  {[idx |-> f,
          sep2d |-> [i \in 1..Len(c) |-> Separation(c[i], cat[f[i] + 1])]] :
            f \in {g \in [1..Len(c) -> 0..(Len(cat) - 1)] :
                      \A i \in 1..Len(c) : g[i] \in Near(i)}}

MatchInit ==
    /\ DataSession
    /\ \E m \in MemberCoords, sky \in [1..NCat -> CatPositions] :
          data = [step |-> "query", ngc188_members_coords |-> m, sky |-> sky,
                  src |-> "none", tmass_table |-> <<>>, tmass_coords |-> <<>>,
                  tmass_epoch |-> <<>>, ngc188_members_coords_1999 |-> <<>>,
                  matched |-> <<>>, idx_gaia |-> <<>>, sep2d_gaia |-> <<>>,
                  Jmag |-> <<>>, Gmag |-> <<>>, err |-> "none"]

\* result = v.query_region(...); tmass_table = result[0]
QueryVizier ==
    /\ data.step = "query"
    /\ IF online
       THEN \E n \in 1..NCat :
               data' = [data EXCEPT !.step = "local", !.src = "net",
                           !.tmass_table = VizierAnswer(data.sky, n)]
       ELSE data' = [data EXCEPT !.step = "local"]
    /\ UNCHANGED session

\* "skip this cell if you do not have an internet connection"
SkipQuery ==
    /\ data.step = "query"
    /\ data' = [data EXCEPT !.step = "local"]
    /\ UNCHANGED session

\* tmass_table = QTable.read("2MASS_results.ecsv")
ReadLocal ==
    /\ data.step = "local"
    /\ data' = [data EXCEPT !.step = "coords", !.src = "file",
                            !.tmass_table = BundledTmass(data.sky)]
    /\ UNCHANGED session

\* the reader keeps the table the query returned
SkipLocal ==
    /\ data.step = "local"
    /\ data.src = "net"
    /\ data' = [data EXCEPT !.step = "coords"]
    /\ UNCHANGED session

\* tmass_coords = SkyCoord(tmass_table["RAJ2000"], tmass_table["DEJ2000"])
MakeTmassCoords ==
    /\ data.step = "coords"
    /\ data' = [data EXCEPT
                   !.step = "epoch",
                   !.tmass_coords =
                       [j \in 1..Len(data.tmass_table) |->
                           Star(data.tmass_table[j].RAJ2000, 0, 0)]]
    /\ UNCHANGED session

\* tmass_epoch = Time(np.unique(tmass_table["Date"]))
TakeEpoch ==
    /\ data.step = "epoch"
    /\ data' = [data EXCEPT
                   !.step = "motion",
                   !.tmass_epoch =
                       NpUnique([j \in 1..Len(data.tmass_table) |->
                                    data.tmass_table[j].Date])]
    /\ UNCHANGED session

\* ngc188_members_coords_1999 =
\*     ngc188_members_coords.apply_space_motion(tmass_epoch)
ApplyMotion ==
    /\ data.step = "motion"
    /\ LET r == PropagateTo(data.ngc188_members_coords, data.tmass_epoch)
       IN  data' = IF r.err # "none"
                   THEN [data EXCEPT !.step = "stopped", !.err = r.err]
                   ELSE [data EXCEPT !.step = "match",
                                     !.ngc188_members_coords_1999 = r.val]
    /\ UNCHANGED session

\* idx_gaia, sep2d_gaia, _ =
\*     ngc188_members_coords_1999.match_to_catalog_sky(tmass_coords)
Match ==
    /\ data.step = "match"
    /\ \E r \in MatchToCatalogSky(data.ngc188_members_coords_1999,
                                  data.tmass_coords) :
          data' = [data EXCEPT
                      !.step = "jmag",
                      !.matched = Append(@, data.ngc188_members_coords_1999),
                      !.idx_gaia = r.idx,
                      !.sep2d_gaia = r.sep2d]
    /\ UNCHANGED session

\* Jmag = tmass_table["Jmag"][idx_gaia]; Gmag = ngc188_members[...]
TakeJmag ==
    /\ data.step = "jmag"
    /\ data' = [data EXCEPT
                   !.step = "done",
                   !.Jmag = [i \in 1..Len(data.idx_gaia) |->
                                data.tmass_table[data.idx_gaia[i] + 1].Jmag],
                   !.Gmag = [i \in 1..Len(data.ngc188_members_coords) |-> i]]
    /\ UNCHANGED session

MatchNext ==
    \/ QueryVizier \/ SkipQuery \/ ReadLocal \/ SkipLocal
    \/ MakeTmassCoords \/ TakeEpoch \/ ApplyMotion \/ Match \/ TakeJmag

MatchSpec == MatchInit /\ [][MatchNext]_vars

(***************************************************************************)
(* The open clusters over a night element by element: notebook 2 from the  *)
(* time grid to the two-dimensional open_cluster_altaz.  An array is its   *)
(* shape and its elements, one for each index; the AltAz position of a     *)
(* cluster at a time is kept as the pair it was computed from.             *)
(***************************************************************************)
\* the longest catalogue and the longest time grid that are drawn
MaxClusters == 3

MaxGrid == 3

\* the sky positions a catalogue row is drawn from
NPositions == 2

\* the rows plotted by open_cluster_altaz[:10]
PlotRows == 10

RECURSIVE Indices(_)
\* the indices of an array of a shape, counted from 1
Indices(shape) ==
    IF shape = <<>> THEN {<<>>}
    ELSE {<<i>> \o t : i \in 1..shape[1], t \in Indices(Tail(shape))}

NdArray(shape, at) == [kind |-> "ndarray", shape |-> shape, at |-> at]

\* a one-dimensional array of the elements of a sequence
FromSeq(q) == NdArray(<<Len(q)>>, [idx \in Indices(<<Len(q)>>) |-> q[idx[1]]])

\* the catalogues: one sky position for each open cluster
ClusterArrays ==
    UNION {{FromSeq(q) : q \in [1..n -> 1..NPositions]} : n \in 1..MaxClusters}

\* np.linspace(0, 14, n), in steps of the grid
Linspace(n) == FromSeq([k \in 1..n |-> k - 1])

\* a[i] with i counted from 0: the first axis goes
ItemAt(a, i) ==
    IF Len(a.shape) = 0 \/ i + 1 > a.shape[1] THEN Err("IndexError")
    ELSE NdArray(Tail(a.shape),
                 [idx \in Indices(Tail(a.shape)) |-> a.at[<<i + 1>> \o idx]])

\* a[0], a[:k], a[:, np.newaxis], a[np.newaxis] element by element
IndexArray(a, how, k) ==
    IF how = "[0]" THEN ItemAt(a, 0)
    ELSE IF how \in {"[:k]", "[:, newaxis]"} /\ Len(a.shape) = 0
    THEN Err("IndexError")
    ELSE LET sh == IndexShape(a.shape, how, k)
             From(idx) ==
                 CASE how = "[:, newaxis]" /\ Len(sh) > Len(a.shape)
                        -> <<idx[1]>> \o SubSeq(idx, 3, Len(idx))
                   [] how = "[newaxis]" /\ Len(sh) > Len(a.shape)
                        -> Tail(idx)
                   [] OTHER -> idx
         IN  NdArray(sh, [idx \in Indices(sh) |-> a.at[From(idx)]])

\* the index into an operand of a shape that a broadcast index reads: the
\* shape is lined up at the last axis and an axis of length 1 is stretched
BroadcastIndex(idx, shape) ==
    LET off == Len(idx) - Len(shape)
    IN  [k \in 1..Len(shape) |-> IF shape[k] = 1 THEN 1 ELSE idx[k + off]]

\* the AltAz position of one sky position at one time
AltAzAt(position, obstime) ==
    [frame |-> "altaz", position |-> position, obstime |-> obstime]

Reverse(q) == [k \in 1..Len(q) |-> q[Len(q) + 1 - k]]

\* .T
Transpose(a) ==
    NdArray(Reverse(a.shape),
            [idx \in Indices(Reverse(a.shape)) |-> a.at[Reverse(idx)]])

\* a transform that puts the frame's axes before the coordinate's
TransformArray_TimeMajor(c, f) ==
    LET sh == Broadcast(c.shape, f.shape)
    IN  IF sh = <<-1>> THEN Err("ValueError")
        ELSE NdArray(Reverse(sh),
                     [idx \in Indices(Reverse(sh)) |->
                         AltAzAt(c.at[BroadcastIndex(Reverse(idx), c.shape)],
                                 f.at[BroadcastIndex(Reverse(idx), f.shape)])])

\* c.transform_to(f) for an array of positions and a frame with an array of
\* obstimes: the two shapes are broadcast against each other
TransformArray(c, f) ==
    LET sh == Broadcast(c.shape, f.shape)
    IN  IF sh = <<-1>> THEN Err("ValueError")
        ELSE NdArray(sh,
                     [idx \in Indices(sh) |->
                         AltAzAt(c.at[BroadcastIndex(idx, c.shape)],
                                 f.at[BroadcastIndex(idx, f.shape)])])

NoArray == NdArray(<<0>>, <<>>)

GridSession ==
    /\ nb = 2
    /\ mode = "interactive"
    /\ online \in BOOLEAN
    /\ pc = 27
    /\ env = [x \in Names |-> Unbound]
    /\ files = [f \in BundledFiles |-> {FromFile(f)}]
    /\ outputs = [i \in 1..Len(NB2) |-> NotRun]
    /\ halted = FALSE

GridInit ==
    /\ GridSession
    /\ \E c \in ClusterArrays :
          data = [step |-> "time_grid", open_cluster_c |-> c,
                  time_grid |-> NoArray, altaz |-> NoArray,
                  oc_altaz |-> NoArray, lens |-> <<>>,
                  open_cluster_altaz |-> NoArray, plotted |-> NoArray]

\* time_grid = observing_date + np.linspace(0, 14, 256) * u.hour
MakeTimeGrid ==
    /\ data.step = "time_grid"
    /\ \E n \in 1..MaxGrid :
          data' = [data EXCEPT !.step = "altaz", !.time_grid = Linspace(n)]
    /\ UNCHANGED session

\* altaz = AltAz(location=observing_location, obstime=time_grid)
MakeAltAz ==
    /\ data.step = "altaz"
    /\ data' = [data EXCEPT !.step = "oc_altaz", !.altaz = data.time_grid]
    /\ UNCHANGED session

\* oc_altaz = open_cluster_c[0].transform_to(altaz)
TransformFirst ==
    /\ data.step = "oc_altaz"
    /\ data' = [data EXCEPT
                   !.step = "len",
                   !.oc_altaz =
                       TransformArray(IndexArray(data.open_cluster_c, "[0]", 0),
                                      data.altaz)]
    /\ UNCHANGED session

\* len(open_cluster_c), len(altaz.obstime)
TakeLengths ==
    /\ data.step = "len"
    /\ data' = [data EXCEPT
                   !.step = "open_cluster_altaz",
                   !.lens = <<data.open_cluster_c.shape[1],
                              data.altaz.shape[1]>>]
    /\ UNCHANGED session

\* open_cluster_altaz =
\*     open_cluster_c[:, np.newaxis].transform_to(altaz[np.newaxis])
TransformAll ==
    /\ data.step = "open_cluster_altaz"
    /\ data' = [data EXCEPT
                   !.step = "plot",
                   !.open_cluster_altaz =
                       TransformArray(
                           IndexArray(data.open_cluster_c, "[:, newaxis]", 0),
                           IndexArray(data.altaz, "[newaxis]", 0))]
    /\ UNCHANGED session

\* plt.plot(time_grid.datetime, open_cluster_altaz[:10].alt.degree.T, ...)
PlotFirstRows ==
    /\ data.step = "plot"
    /\ ~IsErr(data.open_cluster_altaz)
    /\ data' = [data EXCEPT
                   !.step = "done",
                   !.plotted =
                       Transpose(IndexArray(data.open_cluster_altaz, "[:k]",
                                            PlotRows))]
    /\ UNCHANGED session

GridNext ==
    \/ MakeTimeGrid
    \/ MakeAltAz
    \/ TransformFirst
    \/ TakeLengths
    \/ TransformAll
    \/ PlotFirstRows

GridSpec == GridInit /\ [][GridNext]_vars

(***************************************************************************)
(* Two runs of one notebook side by side.  The first run lives in the      *)
(* session variables, the second in `data`; both start in a fresh kernel   *)
(* next to the same bundled files and go through the cells in order.       *)
(***************************************************************************)
\* a run as a record
Run(p, e, fs, outs, h) ==
    [step |-> "twin", pc |-> p, env |-> e, files |-> fs, outputs |-> outs,
     halted |-> h]

\* what the network gives the two runs: any two answers
TwinAnswers_Any(choices) == choices \X choices

\* what the network gives the two runs: the same answer
TwinAnswers(choices) == {<<v, v>> : v \in choices}

HasNetCall(c) == \E i \in 1..Len(c.stmts) : c.stmts[i].net

\* a run after its next cell was executed with result r
AfterCell(run, cell, r) ==
    LET stop == r.err # "none" /\ mode = "runall" /\ ~cell.tag
    IN  Run(IF stop THEN run.pc ELSE run.pc + 1,
            r.env, r.files,
            [run.outputs EXCEPT ![run.pc] =
                CellOut(IF r.err = "none" THEN "ok" ELSE "error",
                        r.err, r.out)],
            stop)

\* a run after its next cell was left out
AfterSkip(run) ==
    Run(run.pc + 1, run.env, run.files,
        [run.outputs EXCEPT ![run.pc] = CellOut("skipped", "none", NoOut)],
        FALSE)

First == Run(pc, env, files, outputs, halted)

SetFirst(run) ==
    /\ pc' = run.pc
    /\ env' = run.env
    /\ files' = run.files
    /\ outputs' = run.outputs
    /\ halted' = run.halted

TwinInit ==
    /\ nb \in 1..Len(Notebooks)
    /\ mode \in {"interactive", "runall"}
    /\ online \in BOOLEAN
    /\ pc = 1
    /\ env = [x \in Names |-> Unbound]
    /\ files = [f \in BundledFiles |-> {FromFile(f)}]
    /\ outputs = [i \in 1..Len(Notebooks[nb]) |-> NotRun]
    /\ halted = FALSE
    /\ data = Run(1, [x \in Names |-> Unbound],
                  [f \in BundledFiles |-> {FromFile(f)}],
                  [i \in 1..Len(Notebooks[nb]) |-> NotRun], FALSE)

\* both runs execute their next cell; a boolean mask keeps the same rows
\* in both when it is applied in the same namespace
TwinRunCell ==
    /\ ~halted /\ ~data.halted
    /\ pc <= NCells /\ data.pc = pc
    /\ LET cell == Notebooks[nb][pc]
       IN  \E v \in TwinAnswers(NetChoices(cell)),
              d \in TwinAnswers(DateChoices(cell)),
              m1 \in MaskChoices(cell), m2 \in MaskChoices(cell) :
              /\ (env = data.env /\ files = data.files) => m1 = m2
              /\ SetFirst(AfterCell(First, cell,
                              ExecCell(cell, env, files, online,
                                       v[1], m1, d[1])))
              /\ data' = AfterCell(data, cell,
                              ExecCell(cell, data.env, data.files, online,
                                       v[2], m2, d[2]))
    /\ UNCHANGED <<nb, mode, online>>

\* both runs leave out a network cell, or the "alternatively" cell when the
\* cell before it has run
TwinSkipCell ==
    /\ ~halted /\ ~data.halted
    /\ pc <= NCells /\ data.pc = pc
    /\ mode = "interactive"
    /\ \/ HasNetCall(Notebooks[nb][pc])
       \/ Notebooks[nb][pc].skip
       \/ /\ Notebooks[nb][pc].alt
          /\ pc > 1
          /\ outputs[pc - 1].status = "ok"
          /\ data.outputs[pc - 1].status = "ok"
    /\ SetFirst(AfterSkip(First))
    /\ data' = AfterSkip(data)
    /\ UNCHANGED <<nb, mode, online>>

TwinNext == TwinRunCell \/ TwinSkipCell

TwinSpec == TwinInit /\ [][TwinNext]_vars

(***************************************************************************)
(* Vocabulary of the properties.                                           *)
(***************************************************************************)
CellBinds(c) == SeqUnion([i \in 1..Len(c.stmts) |-> c.stmts[i].binds])

\* the cells of notebook n that call out to the network
NetCells(n) ==
    {i \in 1..Len(Notebooks[n]) :
        \E j \in 1..Len(Notebooks[n][i].stmts) : Notebooks[n][i].stmts[j].net}

\* where the data behind a value came from; a file name stands for the file
Origin(val) ==
    IF val.kind = "filename" /\ val.file \in DOMAIN files
    THEN files[val.file] ELSE Prov(val)

\* cell i has been executed (and did or did not raise)
Ran(i) == outputs[i].status \in {"ok", "error"}

\* no cell after cell i has raised NameError
NoNameErrorAfter(i) ==
    \A j \in (i + 1)..NCells : outputs[j].ename # "NameError"

(***************************************************************************)
(* C1.  Offline fallback in notebooks 3 and 4.                             *)
(***************************************************************************)
\* <<notebook, network cell, variable, bundled file>>; the local-read cell
\* is the cell right after the network cell
C1_Fallbacks ==
    {<<3, 12, "gaia_tbl", "HD_219829_query_results.ecsv">>,
     <<3, 16, "dss_cutout_filename", "dss_hd219829.fits">>,
     <<4, 3, "tmass_table", "2MASS_results.ecsv">>}

C1_LocalReadBinds ==
    \A fb \in C1_Fallbacks :
        LET q == fb[2]
            l == fb[2] + 1
        IN  (nb = fb[1] /\ outputs[q].status \in {"skipped", "error"}
             /\ outputs[l].status # "notrun")
            => /\ q \in NetCells(nb)
               /\ fb[3] \in CellBinds(Notebooks[nb][q])
                              \cap CellBinds(Notebooks[nb][l])
               /\ outputs[l].status = "ok"
               /\ Origin(env[fb[3]]) = {FromFile(fb[4])}
               /\ NoNameErrorAfter(l)

C1_NoOtherFailure ==
    (nb \in {3, 4} /\ ~online /\ mode = "interactive")
    => /\ ~halted
       /\ \A j \in 1..NCells :
             outputs[j].status = "error"
             => j \in NetCells(nb) \/ Notebooks[nb][j].tag

C2_SkipConeSearch ==
    (nb = 1 /\ outputs[14].status = "skipped")
    => /\ outputs[15].status # "error"
       /\ outputs[16].status # "notrun"
          => /\ outputs[16].status = "ok"
             /\ Origin(env["ngc188_table"]) = {FromFile("gaia_results.fits")}
             /\ NoNameErrorAfter(16)

(***************************************************************************)
(* C3.  A position without distance and the Galactocentric frame.          *)
(***************************************************************************)
C3_State ==
    /\ (nb = 2 /\ Ran(34))
       => /\ "dist" \notin env["icrs_c"].has
          /\ outputs[34].status = "ok"
          /\ outputs[34].value.kind = "SkyCoord"
          /\ outputs[34].value.frame = "fk5"
    /\ (nb = 3 /\ Ran(7))
       => /\ "dist" \notin env["velocity_coord"].has
          /\ outputs[7].status = "ok"
          /\ env["velocity_coord_gal"].frame = "galactic"
    /\ (nb = 2 /\ Ran(34) /\ Ran(35))
       => /\ outputs[35].status = "error"
          /\ outputs[35].ename = "ConvertError"
          /\ outputs[35].value = NoOut
          /\ env["icrs_c"].frame = "icrs"

C3_Step ==
    (nb = 2 /\ pc = 35 /\ Ran(34) /\ outputs'[35].status \in {"ok", "error"})
    => /\ env' = env
       /\ pc' = 36 /\ ~halted'

\* C3: a SkyCoord with a sky position and no distance transforms to the
\* frames that are a rotation of ICRS (FK5, Galactic); transforming it to
\* Galactocentric raises, no transformed coordinate comes out, icrs_c keeps
\* the value it had, and the cell neither catches the error nor tries again:
\* the error is the cell's output and the notebook goes on to the next cell.
C3_GalactocentricNeedsDistance == []C3_State /\ [][C3_Step]_vars

C3_Witness ==
    /\ nb = 2 /\ pc > 35
    /\ outputs[34].status = "ok" /\ outputs[35].ename = "ConvertError"

(***************************************************************************)
(* C4.  Velocities into the Galactocentric frame.                          *)
(***************************************************************************)
C4_Galactocentric == FrameVal("galactocentric", <<>>, {})

\* C4: a SkyCoord with proper motions but without distance and radial
\* velocity cannot be transformed to Galactocentric (test_coord_1 raises);
\* with distance, proper motions and radial velocity it can (test_coord_2),
\* and of the coordinates with proper motions exactly those that have both
\* distance and radial velocity transform.
C4_FullSpaceMotion ==
    /\ (nb = 3 /\ Ran(10))
       => /\ env["test_coord_1"].has = {"pm"}
          /\ outputs[10].status = "error"
          /\ outputs[10].ename = "ConvertError"
    /\ (nb = 3 /\ Ran(11))
       => /\ env["test_coord_2"].has = {"dist", "pm", "rv"}
          /\ outputs[11].status = "ok"
          /\ outputs[11].value.kind = "SkyCoord"
          /\ outputs[11].value.frame = "galactocentric"
          /\ outputs[11].value.has = {"dist", "pm", "rv"}
    /\ nb = 3
       => \A h \in SUBSET {"dist", "rv"} :
             LET c == Sky("icrs", "SphericalRepresentation", h \cup {"pm"},
                          <<>>, {})
             IN  IsErr(TransformTo(c, C4_Galactocentric))
                 <=> h # {"dist", "rv"}

C4_Witness ==
    /\ nb = 3
    /\ outputs[10].ename = "ConvertError" /\ outputs[11].status = "ok"

(***************************************************************************)
(* C5.  Names are bound before they are read.                              *)
(***************************************************************************)
\* the failures the text announces: network cells, raises-exception cells
C5_Announced(i) == i \in NetCells(nb) \/ Notebooks[nb][i].tag

\* C5: run top to bottom, with the skippable network cells run or skipped,
\* no cell of any notebook reads a name that no earlier cell has bound: a
\* NameError never appears unless an earlier cell failed in a way the text
\* does not announce.
C5_NamesBoundBeforeUse ==
    \A j \in 1..NCells :
        (\A i \in 1..(j - 1) :
            outputs[i].status = "error" => C5_Announced(i))
        => outputs[j].ename # "NameError"

(***************************************************************************)
(* C6.  The members are propagated to the 2MASS epoch before the match.    *)
(***************************************************************************)
\* the cross-match cell has run
C6_Matched == data.step \in {"jmag", "done"}

C6_State ==
    /\ ~C6_Matched => data.matched = <<>>
    /\ C6_Matched
       => LET m == data.ngc188_members_coords
              r == data.matched[1]
          IN  /\ Len(data.matched) = 1
              /\ r = data.ngc188_members_coords_1999
              /\ Len(r) = Len(m)
              /\ \A i \in 1..Len(m) :
                    /\ m[i].obstime = EpochGaia
                    /\ r[i].obstime # EpochGaia
                    /\ \E k \in 1..Len(data.tmass_epoch) :
                          r[i].obstime = data.tmass_epoch[k]
                    /\ r[i].ra = m[i].ra
                                   + m[i].pm * (r[i].obstime - EpochGaia)

C6_Step == data'.ngc188_members_coords = data.ngc188_members_coords

\* C6: match_to_catalog_sky is only ever called on
\* ngc188_members_coords_1999, the result of
\* ngc188_members_coords.apply_space_motion(tmass_epoch): every coordinate it
\* is called on has left epoch J2015.5 for an epoch of the 2MASS table and
\* sits where its proper motion puts it at that epoch; and
\* apply_space_motion, like every other cell, leaves ngc188_members_coords
\* as it was.
C6_PropagatedBeforeMatch == []C6_State /\ [][C6_Step]_vars

C6_Witness ==
    /\ data.step = "done"
    /\ data.ngc188_members_coords[1].pm # 0
    /\ data.matched[1][1].ra # data.ngc188_members_coords[1].ra
    /\ data.matched[1][1].obstime = Epoch2MASS

(***************************************************************************)
(* C7.  What the cross-match returns.                                      *)
(***************************************************************************)
\* C7: match_to_catalog_sky returns one entry per member: idx_gaia[i] is a
\* valid index into tmass_coords, no 2MASS source is nearer to member i than
\* the one it names, sep2d_gaia[i] is the separation from that source, and
\* idx_gaia, sep2d_gaia and Jmag are as long as the member list, so that
\* Jmag lines up with Gmag.
C7_NearestNeighbour ==
    C6_Matched
    => LET c == data.ngc188_members_coords_1999
           cat == data.tmass_coords
           n == Len(data.ngc188_members_coords)
       IN  /\ Len(data.idx_gaia) = n
           /\ Len(data.sep2d_gaia) = n
           /\ Len(cat) = Len(data.tmass_table)
           /\ \A i \in 1..n :
                 /\ data.idx_gaia[i] \in 0..(Len(cat) - 1)
                 /\ data.sep2d_gaia[i]
                       = Separation(c[i], cat[data.idx_gaia[i] + 1])
                 /\ \A k \in 1..Len(cat) :
                       data.sep2d_gaia[i] <= Separation(c[i], cat[k])
           /\ data.step = "done"
              => /\ Len(data.Jmag) = Len(data.Gmag)
                 /\ \A i \in 1..n :
                       data.Jmag[i]
                          = data.tmass_table[data.idx_gaia[i] + 1].Jmag

C7_Witness ==
    /\ data.step = "done"
    /\ data.idx_gaia[1] # data.idx_gaia[2]
    /\ data.sep2d_gaia[1] = 0

(***************************************************************************)
(* C8.  The epoch of the 2MASS table.                                      *)
(***************************************************************************)
\* the cell that binds tmass_epoch has run
C8_EpochTaken ==
    data.step \in {"motion", "match", "jmag", "done", "stopped"}

C9_Plain(c) ==
    ~HasMask(c) /\ \A i \in DOMAIN c.mask : ~c.mask[i]

\* C9: whether or not the table columns are masked, the velocity components
\* handed to SkyCoord are unmasked and free of NaN (a masked or NaN entry
\* has become 0, every other entry is as it was), the parallax handed to
\* Distance is unmasked (a masked entry has become NaN), and the cell does
\* not raise.
C9_MaskedCleanup ==
    /\ data.step \in {"loop", "skycoord", "done"}
       => /\ C9_Plain(data.parallax)
          /\ DOMAIN data.parallax.data = Rows
    /\ data.step = "loop" /\ data.rawkey = "parallax"
       => \A i \in Rows :
             data.parallax.data[i]
                = IF data.raw.mask[i] THEN NaN ELSE data.raw.data[i]
    /\ data.step \in {"loop", "skycoord", "done"}
       => \A k \in 1..Len(data.velocity_data) :
             /\ C9_Plain(data.velocity_data[k])
             /\ \A i \in Rows : ~data.velocity_data[k].data[i].nan
    /\ data.step \in {"loop", "skycoord", "done"}
          /\ data.rawkey # "parallax"
       => /\ data.rawkey = VelocityKeys[Len(data.velocity_data)]
          /\ \A i \in Rows :
                data.velocity_data[Len(data.velocity_data)].data[i]
                   = IF data.raw.mask[i] \/ data.raw.data[i].nan
                     THEN Num(0) ELSE data.raw.data[i]
    /\ data.step = "done"
       => /\ Len(data.velocity_data) = Len(VelocityKeys)
          /\ data.err = "none"

C9_Witness ==
    /\ data.step = "done"
    /\ data.err = "none"
    /\ HasMask(data.raw)
    /\ data.raw.mask[1]
    /\ ~data.raw.mask[2] /\ data.raw.data[2].nan
    /\ data.velocity_data[3].data = [i \in Rows |-> Num(0)]

(***************************************************************************)
(* C10.  represent_as and representation_type.                             *)
(***************************************************************************)
C10_State ==
    /\ (nb = 2 /\ Ran(3))
       => /\ outputs[3].status = "ok"
          /\ outputs[3].value.kind = "representation"
          /\ outputs[3].value.rep = "CartesianRepresentation"
    /\ (nb = 2 /\ Ran(3) /\ Ran(4)) => outputs[4] = outputs[3]
    /\ (nb = 2 /\ Ran(7) /\ Ran(8))
       => /\ outputs[7].value.rep = "CartesianRepresentation"
          /\ outputs[8].value.rep = "CylindricalRepresentation"
    /\ (nb = 2 /\ pc \in 3..NCells + 1)
       => env["c"].rep = "SphericalRepresentation"
    /\ (nb = 2 /\ pc = 10) => env["c3"].rep = "SphericalRepresentation"
    /\ (nb = 2 /\ pc > 10) => env["c3"].rep = "CylindricalRepresentation"

C10_Step ==
    /\ (nb = 2 /\ pc \in {3, 4, 7, 8} /\ pc' = pc + 1) => env' = env
    /\ (nb = 2 /\ pc = 10 /\ pc' = 11)
       => env' = [env EXCEPT !["c3"] =
                     [env["c3"] EXCEPT !.rep = "CylindricalRepresentation"]]

\* C10: represent_as with the name string and with the class give the same
\* result and leave the SkyCoord as it was (still spherical); assigning
\* representation_type changes the one SkyCoord behind the name, and nothing
\* else, to the new representation.
C10_Representations == []C10_State /\ [][C10_Step]_vars

C10_Witness ==
    /\ nb = 2 /\ pc > 12
    /\ outputs[3].status = "ok" /\ outputs[4].status = "ok"
    /\ outputs[11].value.rep = "CylindricalRepresentation"

(***************************************************************************)
(* C11.  The attributes that work follow representation_type.              *)
(***************************************************************************)
C11_Works(c, names) == \A a \in names : ~IsErr(GetAttr(c, a))

C11_Fails(c, names) == \A a \in names : GetAttr(c, a) = Err("AttributeError")

\* C11: before the assignment to c3.representation_type the attributes .ra
\* and .dec work on c3 and .rho, .phi, .z do not; once it is set to
\* cylindrical .ra and .dec no longer work and the components are reached as
\* .rho, .phi and .z, which is what the next cell but one does.
C11_AttributesFollowRepresentation ==
    /\ (nb = 2 /\ pc = 10 /\ outputs[9].status = "ok")
       => /\ C11_Works(env["c3"], {"ra", "dec"})
          /\ C11_Fails(env["c3"], {"rho", "phi", "z"})
    /\ (nb = 2 /\ pc > 10 /\ outputs[10].status = "ok")
       => /\ C11_Fails(env["c3"], {"ra", "dec"})
          /\ C11_Works(env["c3"], {"rho", "phi", "z"})
    /\ (nb = 2 /\ Ran(12) /\ outputs[10].status = "ok")
       => /\ outputs[12].status = "ok"
          /\ outputs[12].value.kind = "array"

C11_Witness ==
    /\ nb = 2 /\ pc > 12
    /\ outputs[10].status = "ok" /\ outputs[12].status = "ok"
    /\ env["c3"].rep = "CylindricalRepresentation"

(***************************************************************************)
(* C12.  transform_to gives a new SkyCoord with the target frame's names.  *)
(***************************************************************************)
C12_State ==
    /\ (nb = 2 /\ outputs[18].status = "ok")
       => /\ env["open_cluster_gal"].kind = "SkyCoord"
          /\ env["open_cluster_gal"].frame = "galactic"
          /\ C11_Works(env["open_cluster_gal"], {"l", "b"})
          /\ C11_Fails(env["open_cluster_gal"], {"ra", "dec"})
    /\ (nb = 2 /\ Ran(21) /\ Ran(22))
       => outputs[21].status = "ok" /\ outputs[22].status = "ok"
    /\ (nb = 2 /\ outputs[29].status = "ok")
       => /\ env["oc_altaz"].kind = "SkyCoord"
          /\ env["oc_altaz"].frame = "altaz"
          /\ C11_Works(env["oc_altaz"], {"alt", "az"})
          /\ C11_Fails(env["oc_altaz"], {"ra", "dec"})
    /\ (nb = 2 /\ Ran(29)) => outputs[29].status = "ok"
    /\ (nb = 2 /\ Ran(30)) => outputs[30].status = "ok"
    /\ (nb = 2 /\ pc > 14)
       => /\ env["open_cluster_c"].frame = "icrs"
          /\ C11_Works(env["open_cluster_c"], {"ra", "dec"})
    /\ (nb = 3 /\ Ran(7))
       => /\ outputs[7].status = "ok"
          /\ env["velocity_coord_gal"].frame = "galactic"
          /\ C11_Works(env["velocity_coord_gal"],
                       {"l", "b", "pm_l_cosb", "pm_b"})
          /\ C11_Fails(env["velocity_coord_gal"],
                       {"ra", "dec", "pm_ra_cosdec", "pm_dec"})
          /\ env["velocity_coord"].frame = "icrs"
          /\ C11_Works(env["velocity_coord"],
                       {"ra", "dec", "pm_ra_cosdec", "pm_dec"})
    /\ (nb = 3 /\ Ran(8) /\ Ran(9))
       => outputs[8].status = "ok" /\ outputs[9].status = "ok"

C12_Step ==
    /\ (nb = 2 /\ pc \in {18, 19, 29, 32})
       => env'["open_cluster_c"] = env["open_cluster_c"]
    /\ (nb = 3 /\ pc = 7) => env'["velocity_coord"] = env["velocity_coord"]

\* C12: transform_to returns a new SkyCoord in the target frame whose
\* component names follow that frame (l, b, pm_l_cosb, pm_b for Galactic;
\* alt, az for AltAz) and on which the ICRS names do not work; the source
\* stays in ICRS with its ICRS names, so open_cluster_c, transformed to
\* Galactic, is afterwards transformed to AltAz.
C12_NewCoordinateInTargetFrame == []C12_State /\ [][C12_Step]_vars

C12_Witness ==
    /\ nb = 2 /\ pc > 32
    /\ outputs[18].status = "ok" /\ outputs[29].status = "ok"
    /\ env["open_cluster_altaz"].frame = "altaz"
    /\ env["open_cluster_c"].frame = "icrs"

(***************************************************************************)
(* C13.  The shorthand .galactic.                                          *)
(***************************************************************************)
C13_State ==
    (nb = 2 /\ Ran(19))
    => /\ outputs[19].status = "ok"
       /\ env["open_cluster_gal"]
             = TransformTo(env["open_cluster_c"],
                           FrameVal("galactic", <<>>, {}))
       /\ env["open_cluster_gal"].frame = "galactic"
       /\ env["open_cluster_gal"].shape = env["open_cluster_c"].shape
       /\ ComponentNames(env["open_cluster_gal"]) = {"l", "b", "distance"}

C13_Step ==
    (nb = 2 /\ pc = 19 /\ outputs[18].status = "ok"
     /\ outputs'[19].status \in {"ok", "error"})
    => /\ outputs'[19].status = "ok"
       /\ env' = env

\* C13: open_cluster_c.galactic gives the same contents (frame, components,
\* length) as open_cluster_c.transform_to(Galactic()), so the cell that
\* rebinds open_cluster_gal with the shorthand leaves its value, and the
\* whole namespace, as it was.
C13_GalacticShorthand == []C13_State /\ [][C13_Step]_vars

C13_Witness ==
    /\ nb = 2 /\ pc = 20
    /\ outputs[18].status = "ok" /\ outputs[19].status = "ok"
    /\ env["open_cluster_gal"].shape = <<NClusters>>

(***************************************************************************)
(* C14.  The broadcast transform of all clusters over the time grid.       *)
(***************************************************************************)
C14_Done == data.step \in {"plot", "done"}

\* the transform of cluster i alone to AltAz at time_grid[j]
C14_Alone(i, j) ==
    TransformArray(ItemAt(data.open_cluster_c, i - 1),
                   ItemAt(data.altaz, j - 1)).at[<<>>]

\* C14: open_cluster_c[:, np.newaxis].transform_to(altaz[np.newaxis]) has
\* the shape (number of clusters, number of times), (474, 256) for the
\* catalogue and the grid of the notebook; its element [i, j] is the
\* transform of cluster i alone to AltAz at time_grid[j], and its row 0 is
\* oc_altaz.
C14_BroadcastTransform ==
    /\ Broadcast(IndexShape(<<NClusters>>, "[:, newaxis]", 0),
                 IndexShape(<<NTimes>>, "[newaxis]", 0))
          = <<NClusters, NTimes>>
    /\ C14_Done
       => /\ ~IsErr(data.open_cluster_altaz)
          /\ data.open_cluster_altaz.shape = data.lens
          /\ \A i \in 1..data.lens[1], j \in 1..data.lens[2] :
                data.open_cluster_altaz.at[<<i, j>>] = C14_Alone(i, j)
          /\ ItemAt(data.open_cluster_altaz, 0) = data.oc_altaz
          /\ data.oc_altaz.shape = <<data.lens[2]>>

C14_Witness ==
    /\ C14_Done
    /\ data.lens = <<3, 2>>
    /\ data.open_cluster_c.at[<<1>>] # data.open_cluster_c.at[<<2>>]
    /\ data.open_cluster_altaz.at[<<3, 2>>]
          = AltAzAt(data.open_cluster_c.at[<<3>>], 1)

(***************************************************************************)
(* C15.  Errors in a run from top to bottom.                               *)
(***************************************************************************)
\* the cells of notebook n that carry the raises-exception tag
C15_TaggedCells(n) == {i \in 1..Len(Notebooks[n]) : Notebooks[n][i].tag}

C15_Raised(i) == outputs[i].status = "error"

C15_State ==
    /\ C15_TaggedCells(1) = {}
    /\ C15_TaggedCells(2) = {25, 35}
    /\ C15_TaggedCells(3) = {10}
    /\ C15_TaggedCells(4) = {}
    /\ mode = "runall"
       => /\ halted <=> /\ pc <= NCells
                        /\ C15_Raised(pc)
                        /\ pc \notin C15_TaggedCells(nb)
          /\ \A i \in 1..NCells :
                /\ (C15_Raised(i) /\ i \in C15_TaggedCells(nb)) => pc > i
                /\ (C15_Raised(i) /\ i \notin C15_TaggedCells(nb))
                   => /\ halted /\ pc = i
                      /\ \A j \in (i + 1)..NCells : outputs[j] = NotRun
                /\ (C15_Raised(i) /\ online) => i \in C15_TaggedCells(nb)
                /\ (Ran(i) /\ ~online /\ i \in NetCells(nb)) => C15_Raised(i)
          /\ (nb = 2 /\ Ran(35)) => C15_Raised(35)
          /\ (nb = 3 /\ Ran(10)) => C15_Raised(10)
    /\ (mode = "runall" /\ nb = 2 /\ C15_Raised(25))
       => /\ env["demo_loc"] = Obj({})
          /\ pc > 25
    /\ (mode = "runall" /\ nb = 2 /\ C15_Raised(35))
       => env["icrs_c"].kind = "SkyCoord" /\ env["icrs_c"].frame = "icrs"
    /\ (mode = "runall" /\ nb = 3 /\ C15_Raised(10))
       => /\ env["test_coord_1"].kind = "SkyCoord"
          /\ env["test_coord_1"].frame = "icrs"

C15_Step ==
    /\ (mode = "runall" /\ pc <= NCells /\ ~C15_Raised(pc)
        /\ outputs'[pc].status = "error")
       => IF pc \in C15_TaggedCells(nb)
          THEN /\ pc' = pc + 1 /\ ~halted'
               /\ \A x \in Bound(env) \ CellBinds(Notebooks[nb][pc]) :
                     env'[x] = env[x]
               /\ (nb = 2) => env' = env
               /\ (nb = 3) => \A x \in Names \ {"test_coord_1"} :
                                 env'[x] = env[x]
          ELSE halted' /\ pc' = pc
    /\ halted => UNCHANGED vars

\* C15: the cells tagged raises-exception are of_address and the transform
\* of icrs_c to Galactocentric in notebook 2 and the transform of
\* test_coord_1 to Galactocentric in notebook 3, and with a connection no
\* other cell raises.  When a tagged cell raises, a run from top to bottom
\* goes on with the next cell and every name bound before the failing
\* statement keeps its value (demo_loc keeps the from_geodetic location,
\* icrs_c and test_coord_1 stay bound); an error in any untagged cell, each
\* network query included, stops the run where it is.
C15_TaggedCellsContinue == []C15_State /\ [][C15_Step]_vars

C15_Witness ==
    /\ mode = "runall" /\ nb = 2 /\ ~online
    /\ C15_Raised(25) /\ C15_Raised(35)
    /\ pc > NCells /\ ~halted
    /\ env["demo_loc"] = Obj({})

C15_WitnessStop ==
    /\ mode = "runall" /\ nb = 3 /\ ~online
    /\ C15_Raised(10) /\ C15_Raised(12)
    /\ halted /\ pc = 12

(***************************************************************************)
(* C16.  Two runs that get the same from the network end the same.         *)
(***************************************************************************)
C16_Ended == halted \/ pc > NCells

C16_WitnessSkipped ==
    /\ C16_Ended
    /\ nb = 3
    /\ outputs[12].status = "skipped" /\ outputs[16].status = "skipped"
    /\ data.env = env
    /\ Bound(env) # {}

====
